---------------------------- MODULE Spec2Model ----------------------------
(***************************************************************************)
(* A model of the DeepSeek runner of genkitx-deepseek (src/src/runner.ts,  *)
(* src/src/utils.ts and the model registry).                               *)
(*                                                                         *)
(* JavaScript values are tagged records (each type with a field of its     *)
(* own), so that undefined, null, 0, "", false, arrays and objects stay    *)
(* distinct and comparable.  An object is a function from                  *)
(* its own keys to values: a key that is absent is not in the DOMAIN, a    *)
(* key that is present with the value undefined is in the DOMAIN and maps  *)
(* to Undefined.                                                           *)
(***************************************************************************)
EXTENDS Integers, Sequences, FiniteSets, TLC

VARIABLES
    fnName,    \* pure-function harness: the exported function that was applied
    fnArgs,    \* its arguments
    fnRes,     \* its outcome: [ok, err, val]
    pc,        \* runner: per call, the position of the async function
    args,      \* runner: per call, [name, request, callback] as passed
    handle,    \* runner: per call, the local `stream` / pending request (0 = none)
    outcome,   \* runner: per call, what the returned promise settled to
    transport, \* the client: the requests made on it, in order, each with the
               \* chunks it has yielded and the completion it has returned
    cbLog      \* per call, the invocations its streaming callback has received

vars == <<fnName, fnArgs, fnRes, pc, args, handle, outcome, transport, cbLog>>
fnVars == <<fnName, fnArgs, fnRes>>
runVars == <<pc, args, handle, outcome, transport, cbLog>>

-----------------------------------------------------------------------------
(* Bounds of the model.                                                    *)

MaxSetFields == 2   \* configuration fields given a value in one request
MaxMsgs == 2        \* messages in one request
MaxTools == 1       \* tools in one request
MaxChunks == 2      \* chunks the transport yields, over all its streams
MaxChoices == 2     \* choices in one chunk or one final completion

-----------------------------------------------------------------------------
(* JavaScript values.                                                      *)

Undefined == [t |-> "undefined"]
Null == [t |-> "null"]
Num(n) == [t |-> "number", n |-> n]
Str(s) == [t |-> "string", s |-> s]
Bool(b) == [t |-> "boolean", b |-> b]
Arr(s) == [t |-> "array", a |-> s]
Obj(f) == [t |-> "object", o |-> f]
EmptyObj == Obj([k \in {} |-> Undefined])

\* v == null
IsNullish(v) == v.t \in {"undefined", "null"}

\* ToBoolean(v), as used by `!x`, `x || y`, `if (x)` and `x ? a : b`
Truthy(v) ==
    CASE v.t = "undefined" -> FALSE
      [] v.t = "null" -> FALSE
      [] v.t = "number" -> v.n # 0
      [] v.t = "string" -> v.s # ""
      [] v.t = "boolean" -> v.b
      [] OTHER -> TRUE

\* a || b
OrElse(a, b) == IF Truthy(a) THEN a ELSE b

\* o[k] for an object value: an absent key reads as undefined
Get(o, k) == IF o.t = "object" /\ k \in DOMAIN o.o THEN o.o[k] ELSE Undefined

HasKey(o, k) == o.t = "object" /\ k \in DOMAIN o.o

\* outcomes of a call that may throw
Ok(v) == [ok |-> TRUE, err |-> "", val |-> v]
Throw(e) == [ok |-> FALSE, err |-> e, val |-> Undefined]
NoRes == [ok |-> FALSE, err |-> "not called", val |-> Undefined]

\* the first failure among a sequence of outcomes, or none
RECURSIVE FirstFailure(_)
FirstFailure(rs) ==
    IF rs = <<>> THEN 0
    ELSE IF ~rs[1].ok THEN 1
    ELSE LET k == FirstFailure(Tail(rs)) IN IF k = 0 THEN 0 ELSE k + 1

-----------------------------------------------------------------------------
(* The model registry.                                                     *)

\* the own keys of the SUPPORTED_DEEPSEEK_MODELS object literal
SUPPORTED_DEEPSEEK_MODELS == {"deepseek-chat", "deepseek-reasoner"}

\* keys every object literal inherits from Object.prototype
ObjectPrototypeKeys == {"constructor", "toString"}

\* SUPPORTED_DEEPSEEK_MODELS[modelName]: a property read on an object
\* literal finds own keys and inherited ones; anything else is undefined
LookupModel(modelName) ==
    IF modelName \in SUPPORTED_DEEPSEEK_MODELS THEN Obj([name |-> Str("deepseek/" \o modelName)])
    ELSE IF modelName \in ObjectPrototypeKeys THEN Obj([inherited |-> Str(modelName)])
    ELSE Undefined

-----------------------------------------------------------------------------
(* utils.ts                                                                *)

\* removeEmptyKeys: deletes the own keys whose value is null or undefined
removeEmptyKeys(obj) ==
    Obj([k \in {j \in DOMAIN obj.o : ~IsNullish(obj.o[j])} |-> obj.o[k]])

-----------------------------------------------------------------------------
(* runner.ts: the response mapper.                                         *)

\* DeepSeekCandidateSchema.parse: index a number, finishReason a string,
\* message.role the literal assistant, message.text a string
DeepSeekCandidateSchemaParse(cand) ==
    IF /\ Get(cand, "index").t = "number"
       /\ Get(cand, "finishReason").t = "string"
       /\ Get(cand, "message").t = "object"
       /\ Get(Get(cand, "message"), "role") = Str("assistant")
       /\ Get(Get(cand, "message"), "text").t = "string"
    THEN Ok(Obj([index |-> Get(cand, "index"),
                 finishReason |-> Get(cand, "finishReason"),
                 message |-> Obj([role |-> Str("assistant"),
                                  text |-> Get(Get(cand, "message"), "text")]),
                 custom |-> Get(cand, "custom")]))
    ELSE Throw("SchemaValidation")

\* fromDeepSeekChunkChoice.  Reading a property of undefined or null
\* (choice.index, choice.delta.content) is a TypeError, raised while the
\* argument of parse is built, before any validation.
fromDeepSeekChunkChoice(choice) ==
    IF IsNullish(choice) \/ IsNullish(Get(choice, "delta")) THEN Throw("TypeError")
    ELSE DeepSeekCandidateSchemaParse(
             Obj([index |-> Get(choice, "index"),
                  finishReason |-> OrElse(Get(choice, "finish_reason"), Str("other")),
                  message |-> Obj([role |-> Str("assistant"),
                                   text |-> Get(Get(choice, "delta"), "content")]),
                  custom |-> EmptyObj]))

\* fromDeepSeekChoice with another fallback for the finish reason
fromDeepSeekChoiceStop(choice) ==
    IF IsNullish(choice) \/ IsNullish(Get(choice, "message")) THEN Throw("TypeError")
    ELSE DeepSeekCandidateSchemaParse(
             Obj([index |-> Get(choice, "index"),
                  finishReason |-> OrElse(Get(choice, "finish_reason"), Str("stop")),
                  message |-> Obj([role |-> Str("assistant"),
                                   text |-> Get(Get(choice, "message"), "content")]),
                  custom |-> EmptyObj]))

\* fromDeepSeekChoice: the same, reading choice.message.content
fromDeepSeekChoice(choice) ==
    IF IsNullish(choice) \/ IsNullish(Get(choice, "message")) THEN Throw("TypeError")
    ELSE DeepSeekCandidateSchemaParse(
             Obj([index |-> Get(choice, "index"),
                  finishReason |-> OrElse(Get(choice, "finish_reason"), Str("other")),
                  message |-> Obj([role |-> Str("assistant"),
                                   text |-> Get(Get(choice, "message"), "content")]),
                  custom |-> EmptyObj]))

\* toDeepSeekTextContent: a part with a truthy text, or an error
toDeepSeekTextContent(part) ==
    IF Truthy(Get(part, "text"))
    THEN Ok(Obj([type |-> Str("text"), text |-> Get(part, "text")]))
    ELSE Throw("UnsupportedContentType")

-----------------------------------------------------------------------------
(* runner.ts: the request mapper.                                          *)

\* Message.text of the framework: the texts of the parts joined, a part
\* without a truthy text contributing the empty string
RECURSIVE JoinText(_)
JoinText(parts) ==
    IF parts = <<>> THEN ""
    ELSE (IF Truthy(Get(parts[1], "text")) THEN Get(parts[1], "text").s ELSE "")
         \o JoinText(Tail(parts))

MessageText(msg) == Str(JoinText(Get(msg, "content").a))

toDeepSeekRole(role) ==
    IF role = Str("system") THEN Str("system")
    ELSE IF role = Str("assistant") THEN Str("assistant")
    ELSE IF role = Str("user") THEN Str("user")
    ELSE IF role = Str("function") THEN Str("function")
    ELSE role

\* toDeepSeekMessage that keeps the name of any message that has one
toDeepSeekMessageKeepName(msg) ==
    LET role == toDeepSeekRole(Get(msg, "role")) IN
    IF role = Str("function") \/ Truthy(Get(msg, "name"))
    THEN Obj([role |-> role, content |-> MessageText(msg),
              name |-> OrElse(Get(msg, "name"), Str("function"))])
    ELSE Obj([role |-> role, content |-> MessageText(msg)])

\* the body of the map callback of toDeepSeekMessages
toDeepSeekMessage(msg) ==
    LET role == toDeepSeekRole(Get(msg, "role")) IN
    IF role = Str("function")
    THEN Obj([role |-> role, content |-> MessageText(msg),
              name |-> OrElse(Get(msg, "name"), Str("function"))])
    ELSE Obj([role |-> role, content |-> MessageText(msg)])

toDeepSeekMessages(messages) ==
    Arr([i \in 1..Len(messages.a) |-> toDeepSeekMessage(messages.a[i])])

toDeepSeekTool(tool) ==
    Obj([type |-> Str("function"),
         function |-> Obj([name |-> Get(tool, "name"),
                           parameters |-> IF Get(tool, "inputSchema") # Null
                                          THEN Get(tool, "inputSchema")
                                          ELSE Undefined])])

\* the object literal of toDeepSeekRequestBody, before normalization
RawBody(modelName, request) ==
    LET config == Get(request, "config") IN
    Obj([model |-> Str(modelName),
         messages |-> toDeepSeekMessages(Get(request, "messages")),
         temperature |-> Get(config, "temperature"),
         max_tokens |-> Get(config, "maxOutputTokens"),
         top_p |-> Get(config, "topP"),
         stop |-> Get(config, "stopSequences"),
         frequency_penalty |-> Get(config, "frequencyPenalty"),
         presence_penalty |-> Get(config, "presencePenalty"),
         logprobs |-> Get(config, "logProbs"),
         top_logprobs |-> Get(config, "topLogProbs"),
         tools |-> IF Truthy(Get(request, "tools"))
                   THEN Arr([i \in 1..Len(Get(request, "tools").a) |->
                                toDeepSeekTool(Get(request, "tools").a[i])])
                   ELSE Undefined,
         tool_choice |-> OrElse(Get(config, "tool_choice"), Str("none")),
         response_format |-> Obj([type |-> Str("text")]),
         stream |-> Bool(FALSE),
         stream_options |-> Null])

toDeepSeekRequestBody(modelName, request) ==
    IF ~Truthy(LookupModel(modelName)) THEN Throw("UnsupportedModel")
    ELSE IF ~Truthy(Get(request, "config")) THEN Throw("MissingConfiguration")
    ELSE Ok(removeEmptyKeys(RawBody(modelName, request)))

-----------------------------------------------------------------------------
(* The inputs the exported functions are applied to.                       *)

ModelNames == SUPPORTED_DEEPSEEK_MODELS \cup {"foo", "constructor"}

ConfigKeys ==
    {"temperature", "maxOutputTokens", "topP", "stopSequences", "frequencyPenalty",
     "presencePenalty", "logProbs", "topLogProbs", "tool_choice"}

\* the key of the wire body a configuration field is written to
WireKey(k) ==
    CASE k = "temperature" -> "temperature"
      [] k = "maxOutputTokens" -> "max_tokens"
      [] k = "topP" -> "top_p"
      [] k = "stopSequences" -> "stop"
      [] k = "frequencyPenalty" -> "frequency_penalty"
      [] k = "presencePenalty" -> "presence_penalty"
      [] k = "logProbs" -> "logprobs"
      [] k = "topLogProbs" -> "top_logprobs"
      [] k = "tool_choice" -> "tool_choice"

\* a falsy but defined value of each field (an empty sequence for
\* stopSequences, which is defined and, in JavaScript, not falsy)
FalsyValue(k) ==
    CASE k = "stopSequences" -> Arr(<<>>)
      [] k = "logProbs" -> Bool(FALSE)
      [] k = "tool_choice" -> Str("")
      [] OTHER -> Num(0)

SetValue(k) ==
    CASE k = "stopSequences" -> Arr(<<Str("END")>>)
      [] k = "logProbs" -> Bool(TRUE)
      [] k = "tool_choice" -> Str("auto")
      [] k = "maxOutputTokens" -> Num(16)
      [] k = "topLogProbs" -> Num(5)
      [] OTHER -> Num(1)

ConfigValues(k) == {Undefined, Null, FalsyValue(k), SetValue(k)}

Configs ==
    {Obj(f) : f \in UNION {{g \in [S -> UNION {ConfigValues(k) : k \in ConfigKeys}] :
                               \A k \in S : g[k] \in ConfigValues(k)} :
                           S \in {T \in SUBSET ConfigKeys : Cardinality(T) <= MaxSetFields}}}

TextPart(s) == Obj([text |-> Str(s)])
MediaPart == Obj([media |-> Obj([url |-> Str("img.png")])])

Contents == {Arr(<<TextPart("hi")>>), Arr(<<TextPart("a"), MediaPart, TextPart("b")>>)}

Roles == {"system", "user", "assistant", "function", "tool"}

Messages ==
    {Obj([role |-> Str(r), content |-> c]) : r \in Roles, c \in Contents}
    \cup {Obj([role |-> Str(r), content |-> c, name |-> n]) :
             r \in Roles, c \in Contents, n \in {Str(""), Str("lookup")}}

SeqsUpTo(S, n) == UNION {[1..m -> S] : m \in 0..n}

Tools ==
    {Obj([name |-> Str("search")]),
     Obj([name |-> Str("search"), inputSchema |-> Null]),
     Obj([name |-> Str("search"), inputSchema |-> Obj([type |-> Str("object")])])}

DefaultMessages == Arr(<<Obj([role |-> Str("user"), content |-> Arr(<<TextPart("hi")>>)])>>)

\* requests: every configuration with the default messages, every message
\* list and every tool list with an empty configuration, and a request
\* without configuration
Requests ==
    {Obj([messages |-> DefaultMessages, config |-> c]) : c \in Configs}
    \cup {Obj([messages |-> Arr(ms), config |-> EmptyObj]) : ms \in SeqsUpTo(Messages, MaxMsgs)}
    \cup {Obj([messages |-> DefaultMessages, config |-> EmptyObj, tools |-> Arr(ts)]) :
             ts \in SeqsUpTo(Tools, MaxTools)}
    \cup {Obj([messages |-> DefaultMessages]),
          Obj([messages |-> Arr(<<Obj([role |-> Str("user"), content |-> Arr(<<MediaPart>>)])>>)])}

\* upstream choices, well formed and not
ChoiceIndexes == {Undefined, Num(0), Num(1), Str("0")}
FinishReasons == {Undefined, Null, Str(""), Str("stop"), Str("length"), Num(7)}
Payloads ==
    {Undefined, Null, EmptyObj, Obj([content |-> Null]), Obj([content |-> Num(7)]),
     Obj([content |-> Str("")]), Obj([content |-> Str("hello")])}

\* an object with the keys whose value is not undefined (an omitted key)
Sparse(o) == Obj([k \in {j \in DOMAIN o.o : o.o[j] # Undefined} |-> o.o[k]])

Choices(inner) ==
    {Sparse(Obj([index |-> i, finish_reason |-> f] @@ (inner :> p))) :
        i \in ChoiceIndexes, f \in FinishReasons, p \in Payloads}

Parts == {TextPart("hi"), TextPart(""), MediaPart, EmptyObj, Obj([text |-> Null])}

-----------------------------------------------------------------------------
(* The exported functions, each applied once to an input.                  *)

ApplyToDeepSeekRequestBody ==
    /\ fnName = "none"
    /\ \E modelName \in ModelNames, request \in Requests :
          /\ fnName' = "toDeepSeekRequestBody"
          /\ fnArgs' = <<Str(modelName), request>>
          /\ fnRes' = toDeepSeekRequestBody(modelName, request)
    /\ UNCHANGED runVars

ApplyFromDeepSeekChoice ==
    /\ fnName = "none"
    /\ \E choice \in Choices("message") :
          /\ fnName' = "fromDeepSeekChoice"
          /\ fnArgs' = <<choice>>
          /\ fnRes' = fromDeepSeekChoice(choice)
    /\ UNCHANGED runVars

ApplyFromDeepSeekChunkChoice ==
    /\ fnName = "none"
    /\ \E choice \in Choices("delta") :
          /\ fnName' = "fromDeepSeekChunkChoice"
          /\ fnArgs' = <<choice>>
          /\ fnRes' = fromDeepSeekChunkChoice(choice)
    /\ UNCHANGED runVars

ApplyToDeepSeekTextContent ==
    /\ fnName = "none"
    /\ \E part \in Parts :
          /\ fnName' = "toDeepSeekTextContent"
          /\ fnArgs' = <<part>>
          /\ fnRes' = toDeepSeekTextContent(part)
    /\ UNCHANGED runVars

-----------------------------------------------------------------------------
(* deepseekRunner: the async function it returns, one step per stretch of  *)
(* code between two suspension points.                                     *)

\* the runner calls in flight together
Calls == {1, 2}

\* what the runner is created and called with
RunnerNames == {"deepseek-chat", "foo", "constructor"}

RunnerRequests ==
    {Obj([messages |-> DefaultMessages, config |-> Obj([temperature |-> Num(0)])]),
     Obj([messages |-> DefaultMessages])}

\* what the transport may yield: chunks of a stream.  A chunk has no
\* `choices`, or up to MaxChoices delta choices with content, or a choice
\* with content followed by one without (a closing delta)
Delta(i) == Obj([index |-> Num(i - 1), delta |-> Obj([content |-> Str("He")])])

ClosingDelta(i) == Obj([index |-> Num(i - 1), finish_reason |-> Str("stop"), delta |-> EmptyObj])

Chunks ==
    {Obj([id |-> Str("cmpl")])}
    \cup {Obj([id |-> Str("cmpl"), choices |-> Arr([i \in 1..n |-> Delta(i)])]) : n \in 1..MaxChoices}
    \cup {Obj([id |-> Str("cmpl"), choices |-> Arr(<<Delta(1), ClosingDelta(2)>>)])}

\* what the transport may return: final completions.  A completion has no
\* `choices`, or up to MaxChoices choices with a text, or a choice with a
\* text followed by one whose content is null
FinalChoice(i) ==
    Obj([index |-> Num(i - 1), finish_reason |-> Str("stop"),
         message |-> Obj([content |-> Str("Hello")])])

NullChoice(i) == Obj([index |-> Num(i - 1), message |-> Obj([content |-> Null])])

Usage == Obj([prompt_tokens |-> Num(3), completion_tokens |-> Num(2), total_tokens |-> Num(5)])

Responses ==
    {Obj([id |-> Str("cmpl")]), Obj([id |-> Str("cmpl"), choices |-> Arr(<<FinalChoice(1)>>)])}
    \cup {Obj([id |-> Str("cmpl"), choices |-> Arr([i \in 1..n |-> FinalChoice(i)]), usage |-> Usage]) :
             n \in 0..MaxChoices}
    \cup {Obj([id |-> Str("cmpl"), choices |-> Arr(<<FinalChoice(1), NullChoice(2)>>), usage |-> Usage])}

\* the body handed to stream() as it was built, its flag left alone
BodyAsBuilt(body) == body

\* { ...body, stream: true }
WithStream(body) == Obj([k \in DOMAIN body.o \cup {"stream"} |->
                           IF k = "stream" THEN Bool(TRUE) ELSE body.o[k]])

\* the request a call makes on the client
NewRequest(op, c, body) ==
    [op |-> op, by |-> c, body |-> body, chunks |-> <<>>, ended |-> FALSE,
     finals |-> 0, response |-> Undefined]

\* a `stream` variable shared by the calls: the stream opened last
SharedStream(c) ==
    CHOOSE i \in 1..Len(transport) :
        /\ transport[i].op = "stream"
        /\ \A j \in (i + 1)..Len(transport) : transport[j].op # "stream"

\* the `stream` constant of a call: the object its own client.stream() returned
StreamOf(c) == handle[c]

\* the argument the callback is invoked with for a candidate
ChunkData(cand) ==
    Obj([index |-> Get(cand, "index"),
         content |-> Arr(<<Obj([text |-> Get(Get(cand, "message"), "text")])>>)])

\* the loop body handling only the first choice of a chunk
ForEachFirstChoice(chunk, throwAt) ==
    LET all == IF IsNullish(Get(chunk, "choices")) THEN <<>> ELSE Get(chunk, "choices").a
        choices == IF all = <<>> THEN <<>> ELSE <<all[1]>>
        cands == [i \in 1..Len(choices) |-> fromDeepSeekChunkChoice(choices[i])]
        bad == FirstFailure(cands)
        mapped == IF bad = 0 THEN Len(choices) ELSE bad - 1
        thrown == throwAt \in 1..mapped
        made == IF thrown THEN throwAt ELSE mapped
    IN  [calls |-> [i \in 1..made |-> ChunkData(cands[i].val)],
         err |-> IF thrown THEN "CallbackError"
                 ELSE IF bad # 0 THEN cands[bad].err
                 ELSE ""]

\* chunk.choices?.forEach(...): the candidates in order, up to the first
\* choice that fails to map; the callback invoked for each of them, up to
\* the invocation that throws (throwAt, 0 when none does).
\* [calls: the arguments of the invocations made, err: "" or the error]
ForEachChoice(chunk, throwAt) ==
    LET choices == IF IsNullish(Get(chunk, "choices")) THEN <<>> ELSE Get(chunk, "choices").a
        cands == [i \in 1..Len(choices) |-> fromDeepSeekChunkChoice(choices[i])]
        bad == FirstFailure(cands)
        mapped == IF bad = 0 THEN Len(choices) ELSE bad - 1
        thrown == throwAt \in 1..mapped
        made == IF thrown THEN throwAt ELSE mapped
    IN  [calls |-> [i \in 1..made |-> ChunkData(cands[i].val)],
         err |-> IF thrown THEN "CallbackError"
                 ELSE IF bad # 0 THEN cands[bad].err
                 ELSE ""]

\* a response built from the first choice of the completion alone
ToResponseDataFirst(response) ==
    IF IsNullish(response) \/ Get(response, "choices").t # "array" THEN Throw("TypeError")
    ELSE LET all == Get(response, "choices").a
             choices == IF all = <<>> THEN <<>> ELSE <<all[1]>>
             cands == [i \in 1..Len(choices) |-> fromDeepSeekChoice(choices[i])]
             bad == FirstFailure(cands)
         IN  IF bad # 0 THEN Throw(cands[bad].err)
             ELSE Ok(Obj([candidates |-> Arr([i \in 1..Len(choices) |-> cands[i].val]),
                          usage |-> Obj([inputTokens |-> Get(Get(response, "usage"), "prompt_tokens"),
                                         outputTokens |-> Get(Get(response, "usage"), "completion_tokens"),
                                         totalTokens |-> Get(Get(response, "usage"), "total_tokens")]),
                          custom |-> response]))

\* the object the runner returns for a completion
ToResponseData(response) ==
    IF IsNullish(response) \/ Get(response, "choices").t # "array" THEN Throw("TypeError")
    ELSE LET choices == Get(response, "choices").a
             cands == [i \in 1..Len(choices) |-> fromDeepSeekChoice(choices[i])]
             bad == FirstFailure(cands)
         IN  IF bad # 0 THEN Throw(cands[bad].err)
             ELSE Ok(Obj([candidates |-> Arr([i \in 1..Len(choices) |-> cands[i].val]),
                          usage |-> Obj([inputTokens |-> Get(Get(response, "usage"), "prompt_tokens"),
                                         outputTokens |-> Get(Get(response, "usage"), "completion_tokens"),
                                         totalTokens |-> Get(Get(response, "usage"), "total_tokens")]),
                          custom |-> response]))

Settled(c) == pc[c] \in {"done", "failed"}

Settle(c, res) ==
    /\ pc' = [pc EXCEPT ![c] = IF res.ok THEN "done" ELSE "failed"]
    /\ outcome' = [outcome EXCEPT ![c] = res]

\* the call, up to its first suspension: build the body, then either open
\* the stream and start iterating it, or issue the one-shot request
Invoke(c) ==
    /\ pc[c] = "idle"
    /\ \E name \in RunnerNames, request \in RunnerRequests, callback \in BOOLEAN :
          LET body == toDeepSeekRequestBody(name, request) IN
          /\ args' = [args EXCEPT ![c] = [name |-> name, request |-> request, callback |-> callback]]
          /\ IF ~body.ok
             THEN /\ Settle(c, body)
                  /\ UNCHANGED <<handle, transport>>
             ELSE /\ transport' = Append(transport,
                                         IF callback
                                         THEN NewRequest("stream", c, WithStream(body.val))
                                         ELSE NewRequest("create", c, body.val))
                  /\ handle' = [handle EXCEPT ![c] = Len(transport) + 1]
                  /\ pc' = [pc EXCEPT ![c] = IF callback THEN "streaming" ELSE "awaitCreate"]
                  /\ UNCHANGED outcome
    /\ UNCHANGED <<cbLog, fnVars>>

\* the chunks the transport has yielded so far
RECURSIVE Yielded(_)
Yielded(reqs) == IF reqs = <<>> THEN 0 ELSE Len(reqs[1].chunks) + Yielded(Tail(reqs))

\* one turn of `for await`: the stream yields a chunk and the loop body runs
NextChunk(c) ==
    /\ pc[c] = "streaming"
    /\ Yielded(transport) < MaxChunks
    /\ \E chunk \in Chunks, throwAt \in 0..MaxChoices :
          LET h == StreamOf(c)
              run == ForEachChoice(chunk, throwAt)
          IN  /\ throwAt <= Len(run.calls)
              /\ transport' = [transport EXCEPT ![h].chunks = Append(@, chunk)]
              /\ cbLog' = [cbLog EXCEPT ![c] = @ \o run.calls]
              /\ IF run.err # ""
                 THEN Settle(c, Throw(run.err))
                 ELSE UNCHANGED <<pc, outcome>>
    /\ UNCHANGED <<args, handle, fnVars>>

\* the stream is exhausted: the loop exits and finalChatCompletion() is
\* requested and awaited
StreamEnd(c) ==
    /\ pc[c] = "streaming"
    /\ transport' = [transport EXCEPT ![StreamOf(c)].ended = TRUE,
                                      ![StreamOf(c)].finals = @ + 1]
    /\ pc' = [pc EXCEPT ![c] = "awaitFinal"]
    /\ UNCHANGED <<args, handle, outcome, cbLog, fnVars>>

\* the stream fails while it is iterated
StreamError(c) ==
    /\ pc[c] = "streaming"
    /\ Settle(c, Throw("TransportError"))
    /\ UNCHANGED <<args, handle, transport, cbLog, fnVars>>

\* the awaited completion arrives (finalChatCompletion or create) and the
\* response is mapped and returned
Resolve(c) ==
    /\ pc[c] \in {"awaitFinal", "awaitCreate"}
    /\ \E response \in Responses :
          /\ transport' = [transport EXCEPT ![handle[c]].response = response]
          /\ Settle(c, ToResponseData(response))
    /\ UNCHANGED <<args, handle, cbLog, fnVars>>

\* the awaited completion is rejected
Reject(c) ==
    /\ pc[c] \in {"awaitFinal", "awaitCreate"}
    /\ Settle(c, Throw("TransportError"))
    /\ UNCHANGED <<args, handle, transport, cbLog, fnVars>>

-----------------------------------------------------------------------------

NoArgs == [name |-> "", request |-> Undefined, callback |-> FALSE]

Init ==
    /\ fnName = "none"
    /\ fnArgs = <<>>
    /\ fnRes = NoRes
    /\ pc = [c \in Calls |-> "idle"]
    /\ args = [c \in Calls |-> NoArgs]
    /\ handle = [c \in Calls |-> 0]
    /\ outcome = [c \in Calls |-> NoRes]
    /\ transport = <<>>
    /\ cbLog = [c \in Calls |-> <<>>]

Next ==
    \/ \E c \in Calls : Invoke(c)
    \/ \E c \in Calls : NextChunk(c)
    \/ \E c \in Calls : StreamEnd(c)
    \/ \E c \in Calls : StreamError(c)
    \/ \E c \in Calls : Resolve(c)
    \/ \E c \in Calls : Reject(c)

Spec == Init /\ [][Next]_vars

NextFn ==
    \/ ApplyToDeepSeekRequestBody
    \/ ApplyFromDeepSeekChoice
    \/ ApplyFromDeepSeekChunkChoice
    \/ ApplyToDeepSeekTextContent

SpecFn == Init /\ [][NextFn]_vars

-----------------------------------------------------------------------------
(* Vocabulary of the properties.                                           *)

IsPrefix(s, t) == Len(s) <= Len(t) /\ \A i \in 1..Len(s) : s[i] = t[i]

\* the choices a chunk carries, as the upstream sent them
ChoiceList(chunk) == IF HasKey(chunk, "choices") THEN chunk.o.choices.a ELSE <<>>

\* the choices of a sequence of chunks, in upstream order
RECURSIVE Flat(_)
Flat(chunks) == IF chunks = <<>> THEN <<>> ELSE ChoiceList(chunks[1]) \o Flat(Tail(chunks))

\* what the callback is to be told about an upstream delta choice
Told(choice) ==
    Obj([index |-> Get(choice, "index"),
         content |-> Arr(<<Obj([text |-> Get(Get(choice, "delta"), "content")])>>)])

ToldAll(chunks) == [i \in 1..Len(Flat(chunks)) |-> Told(Flat(chunks)[i])]

Front(s) == SubSeq(s, 1, Len(s) - 1)

\* a call that took the streaming path, and the request it made
Streams(c) == pc[c] # "idle" /\ handle[c] # 0 /\ transport[handle[c]].op = "stream"

\* the requests on the client a call has made
Own(c) == {i \in 1..Len(transport) : transport[i].by = c}

\* the outcome of the function that was applied
Applied(f) == fnName = f

-----------------------------------------------------------------------------
(* C1 *)

\* C1, as claimed: a streaming call that resolves has invoked its callback
\* exactly once per chunk the transport yielded.
C1_OncePerChunk ==
    \A c \in Calls :
        Streams(c) /\ pc[c] = "done" => Len(cbLog[c]) = Len(transport[handle[c]].chunks)

\* C1, amended: in a streaming call the callback is invoked exactly once per
\* choice of each chunk, in upstream order (chunks in arrival order, the
\* choices of a chunk in their order; never for a chunk without choices),
\* with that choice's index and delta content.  While the call has not
\* failed every choice of every chunk yielded has been delivered; a call
\* that fails has delivered every choice of the earlier chunks and a prefix
\* of the last one's.  No invocation happens after the call has settled.
C1_OncePerChoiceInOrder ==
    /\ [](\A c \in Calls :
            Streams(c) =>
                LET chunks == transport[handle[c]].chunks IN
                /\ IsPrefix(cbLog[c], ToldAll(chunks))
                /\ pc[c] # "failed" => cbLog[c] = ToldAll(chunks)
                /\ chunks # <<>> => Len(cbLog[c]) >= Len(Flat(Front(chunks))))
    /\ [][\A c \in Calls : Settled(c) => cbLog'[c] = cbLog[c]]_vars

\* C1 witness: a resolved streaming call whose two chunks carried three
\* choices between them, all delivered
C1_Witness ==
    \E c \in Calls :
        /\ Streams(c) /\ pc[c] = "done"
        /\ Len(transport[handle[c]].chunks) = 2
        /\ Len(cbLog[c]) = 3

-----------------------------------------------------------------------------
(* C2 *)

NoNullishValue(o) == \A k \in DOMAIN o.o : ~IsNullish(o.o[k])

\* C2, as claimed: a body that is built has no key whose value is null or
\* undefined, at the top level, in a tool object or in its function object;
\* a tool without input schema has no `parameters` key.
C2_NoNullishKeys ==
    Applied("toDeepSeekRequestBody") /\ fnRes.ok =>
        /\ NoNullishValue(fnRes.val)
        /\ HasKey(fnRes.val, "tools") =>
              \A i \in 1..Len(fnRes.val.o.tools.a) :
                  LET tool == fnRes.val.o.tools.a[i] IN
                  /\ NoNullishValue(tool)
                  /\ NoNullishValue(Get(tool, "function"))

-----------------------------------------------------------------------------
(* C3 *)

FalsyButDefined(v) == ~IsNullish(v) /\ ~Truthy(v)

\* C3, as claimed: every recognized configuration field that is falsy but
\* defined is in the body under its wire key, with exactly that value.
C3_FalsyKept ==
    Applied("toDeepSeekRequestBody") /\ fnRes.ok =>
        \A k \in ConfigKeys :
            LET v == Get(Get(fnArgs[2], "config"), k) IN
            FalsyButDefined(v) =>
                HasKey(fnRes.val, WireKey(k)) /\ fnRes.val.o[WireKey(k)] = v

-----------------------------------------------------------------------------
(* C4 *)

\* the wire message the claim describes for an input message, given the
\* name a function message is to carry
WireMessageOk(in, out, name) ==
    /\ Get(out, "role") = Get(in, "role")
    /\ Get(out, "content").t = "string"
    /\ Get(in, "content") = Arr(<<TextPart("hi")>>) => Get(out, "content") = Str("hi")
    /\ IF Get(in, "role") = Str("function")
       THEN DOMAIN out.o = {"role", "content", "name"} /\ out.o.name = name
       ELSE DOMAIN out.o = {"role", "content"}

-----------------------------------------------------------------------------
(* C5 *)

NoRequestBy(c) == Own(c) = {} /\ handle[c] = 0 /\ cbLog[c] = <<>>

\* C5, as claimed: a call whose model name is not in the registry fails
\* with UnsupportedModel, whatever the request; otherwise a call without
\* config fails with MissingConfiguration; in both cases nothing is sent
\* and the callback is never invoked.
C5_ValidationFirst ==
    \A c \in Calls :
        pc[c] # "idle" =>
            /\ args[c].name \notin SUPPORTED_DEEPSEEK_MODELS =>
                  outcome[c] = Throw("UnsupportedModel") /\ NoRequestBy(c)
            /\ args[c].name \in SUPPORTED_DEEPSEEK_MODELS /\ ~HasKey(args[c].request, "config") =>
                  outcome[c] = Throw("MissingConfiguration") /\ NoRequestBy(c)

-----------------------------------------------------------------------------
(* C6 *)

\* what both mappers are to copy from the upstream choice
CandidateCopies(choice, inner, cand) ==
    /\ Get(Get(cand, "message"), "role") = Str("assistant")
    /\ Get(cand, "index") = Get(choice, "index")
    /\ Get(Get(cand, "message"), "text") = Get(Get(choice, inner), "content")
    /\ ~IsNullish(Get(cand, "finishReason"))

\* C6, as claimed: the finish reason of a candidate is the upstream one when
\* the upstream supplies one, and "other" when it is null or omitted.
FinishReasonSupplied(choice, cand) ==
    IF IsNullish(Get(choice, "finish_reason"))
    THEN Get(cand, "finishReason") = Str("other")
    ELSE Get(cand, "finishReason") = Get(choice, "finish_reason")

FinishReasonTruthy(choice, cand) ==
    IF Get(choice, "finish_reason").t = "string" /\ Get(choice, "finish_reason") # Str("")
    THEN Get(cand, "finishReason") = Get(choice, "finish_reason")
    ELSE Get(cand, "finishReason") = Str("other")

-----------------------------------------------------------------------------
(* C7 *)

Malformed(choice) ==
    \/ ~HasKey(choice, "message")
    \/ Get(choice, "index").t # "number"
    \/ Get(Get(choice, "message"), "content").t # "string"

\* C7, as claimed: fromDeepSeekChoice fails with SchemaValidation, and with
\* nothing else, on every choice that lacks `message`, whose index is
\* missing or not a number, or whose message content is not a string.
C7_MalformedIsSchemaValidation ==
    Applied("fromDeepSeekChoice") /\ Malformed(fnArgs[1]) => fnRes = Throw("SchemaValidation")

-----------------------------------------------------------------------------
(* C8 *)

HasNonTextPart(request) ==
    \E i \in 1..Len(Get(request, "messages").a) :
        \E j \in 1..Len(Get(Get(request, "messages").a[i], "content").a) :
            ~HasKey(Get(Get(request, "messages").a[i], "content").a[j], "text")

\* C8, as claimed: a request with a part that has no text field is rejected
\* with UnsupportedContentType (here for a supported model and a request
\* with config, so that no other error comes first), and so is every such
\* part given to toDeepSeekTextContent.
C8_NonTextRejected ==
    /\ ( /\ Applied("toDeepSeekRequestBody")
         /\ fnArgs[1].s \in SUPPORTED_DEEPSEEK_MODELS
         /\ HasKey(fnArgs[2], "config")
         /\ HasNonTextPart(fnArgs[2]) )
       => fnRes = Throw("UnsupportedContentType")
    /\ Applied("toDeepSeekTextContent") /\ ~HasKey(fnArgs[1], "text")
       => fnRes = Throw("UnsupportedContentType")

-----------------------------------------------------------------------------
(* C9 *)

\* a step touches a call when it changes the call's position, arguments,
\* local handle, outcome or callback log, or a request the call made
Touched(c) ==
    \/ <<pc[c], args[c], handle[c], outcome[c], cbLog[c]>>'
         # <<pc[c], args[c], handle[c], outcome[c], cbLog[c]>>
    \/ \E i \in 1..Len(transport') :
          transport'[i].by = c /\ (i > Len(transport) \/ transport'[i] # transport[i])

\* C9: two calls interleaved in any order are independent.  Each call makes
\* at most one request, with the body built from its own name and request;
\* its callback receives only the choices of its own stream, in that
\* stream's order; its result carries its own transport response; and no
\* step touches the state of both calls.
C9_CallsIndependent ==
    /\ [](\A c \in Calls :
            /\ Cardinality(Own(c)) <= 1
            /\ Own(c) = {} => cbLog[c] = <<>> /\ ~outcome[c].ok
            /\ \A h \in Own(c) :
                  /\ IsPrefix(cbLog[c], ToldAll(transport[h].chunks))
                  /\ toDeepSeekRequestBody(args[c].name, args[c].request).ok
                  /\ transport[h].body =
                        IF args[c].callback
                        THEN WithStream(toDeepSeekRequestBody(args[c].name, args[c].request).val)
                        ELSE toDeepSeekRequestBody(args[c].name, args[c].request).val
                  /\ outcome[c].ok => Get(outcome[c].val, "custom") = transport[h].response)
    /\ [][\A c, d \in Calls : c # d => ~(Touched(c) /\ Touched(d))]_vars

\* C9 witness: both calls are iterating their streams, which have yielded
\* different chunks, and both callbacks have been invoked
C9_Witness ==
    /\ \A c \in Calls : pc[c] = "streaming" /\ cbLog[c] # <<>>
    /\ transport[handle[1]].chunks # transport[handle[2]].chunks
    /\ Len(cbLog[1]) # Len(cbLog[2])

-----------------------------------------------------------------------------
(* C10 *)

\* the response data the claim describes for a final aggregate
FromAggregate(val, response) ==
    LET choices == Get(response, "choices").a
        cands == Get(val, "candidates").a
    IN  /\ Len(cands) = Len(choices)
        /\ \A i \in 1..Len(choices) :
              /\ Ok(cands[i]) = fromDeepSeekChoice(choices[i])
              /\ Get(Get(cands[i], "message"), "text") = Get(Get(choices[i], "message"), "content")
        /\ Get(Get(val, "usage"), "inputTokens") = Get(Get(response, "usage"), "prompt_tokens")
        /\ Get(Get(val, "usage"), "outputTokens") = Get(Get(response, "usage"), "completion_tokens")
        /\ Get(Get(val, "usage"), "totalTokens") = Get(Get(response, "usage"), "total_tokens")
        /\ Get(val, "custom") = response

\* the call failed inside the loop: its callback threw, or the last chunk
\* it took carries a choice whose delta has no string content
FailedMidStream(c) ==
    /\ pc[c] = "failed"
    /\ \/ outcome[c].err = "CallbackError"
       \/ LET chunks == transport[handle[c]].chunks IN
          /\ chunks # <<>>
          /\ \E i \in 1..Len(ChoiceList(chunks[Len(chunks)])) :
                Get(Get(ChoiceList(chunks[Len(chunks)])[i], "delta"), "content").t # "string"

\* C10: in a streaming call finalChatCompletion() is requested once, only
\* after the chunk sequence is exhausted, and no chunk is taken afterwards;
\* the response returned has the aggregate's choices mapped by
\* fromDeepSeekChoice, in the same order and number, the aggregate's token
\* counts as usage and the aggregate itself as custom, whatever was
\* delivered to the callback; a call that fails inside the loop has not
\* requested the aggregate and returns no response.
C10_FinalAggregateOnly ==
    /\ [](\A c \in Calls :
            Streams(c) =>
                LET r == transport[handle[c]] IN
                /\ r.finals <= 1
                /\ r.finals > 0 => r.ended
                /\ outcome[c].ok => pc[c] = "done"
                /\ pc[c] = "done" => r.finals = 1 /\ outcome[c].ok
                                      /\ FromAggregate(outcome[c].val, r.response)
                /\ FailedMidStream(c) => r.finals = 0 /\ r.response = Undefined /\ ~outcome[c].ok)
    /\ [][\A c \in Calls :
            Streams(c) /\ transport[handle[c]].finals > 0 =>
                transport'[handle[c]].chunks = transport[handle[c]].chunks]_vars

\* C10 witness: one streaming call has resolved with the two candidates of
\* its aggregate after its callback was invoked, and the other has failed
\* inside the loop on a throwing callback
C10_Witness ==
    \E c, d \in Calls :
        /\ Streams(c) /\ pc[c] = "done" /\ cbLog[c] # <<>>
        /\ Len(Get(outcome[c].val, "candidates").a) = 2
        /\ Streams(d) /\ FailedMidStream(d) /\ outcome[d].err = "CallbackError"

-----------------------------------------------------------------------------
(* C11 *)

\* the body toDeepSeekRequestBody builds from what the call was given
Built(c) == toDeepSeekRequestBody(args[c].name, args[c].request)

\* a call that was made and whose name and request passed validation
Validated(c) == pc[c] # "idle" /\ Built(c).ok

\* a body without its stream flag
SansStream(body) == [k \in DOMAIN body.o \ {"stream"} |-> body.o[k]]

\* the call was failed by its transport
TransportFailed(c) == pc[c] = "failed" /\ outcome[c].err = "TransportError"

\* C11: every call that passes validation has issued exactly one transport
\* request and never issues another or alters it: stream() with the flag
\* `stream` true if and only if a callback was supplied, otherwise create()
\* with the flag false, the body being otherwise the one
\* toDeepSeekRequestBody built; a transport failure settles the call with
\* the transport's error and no response, and it stays settled that way
\* with its single request.
C11_OneRequestNoRetry ==
    /\ [](\A c \in Calls :
            pc[c] # "idle" =>
                LET built == Built(c) IN
                built.ok =>
                    /\ Cardinality(Own(c)) = 1
                    /\ Own(c) = {handle[c]}
                    /\ LET r == transport[handle[c]] IN
                       /\ r.op = (IF args[c].callback THEN "stream" ELSE "create")
                       /\ HasKey(r.body, "stream")
                       /\ Get(r.body, "stream") = Bool(args[c].callback)
                       /\ Get(built.val, "stream") = Bool(FALSE)
                       /\ SansStream(r.body) = SansStream(built.val)
                       /\ TransportFailed(c) =>
                             /\ outcome[c] = Throw("TransportError")
                             /\ r.response = Undefined
                             /\ ~args[c].callback => r.chunks = <<>> /\ r.finals = 0)
    /\ [][\A c \in Calls :
            /\ Len(transport') <= Len(transport) + 1
            /\ Own(c) # {} =>
                  /\ Own(c)' = Own(c)
                  /\ handle'[c] = handle[c]
                  /\ args'[c] = args[c]
                  /\ transport'[handle[c]].op = transport[handle[c]].op
                  /\ transport'[handle[c]].body = transport[handle[c]].body
            /\ TransportFailed(c) =>
                  /\ outcome'[c] = outcome[c]
                  /\ pc'[c] = pc[c]
                  /\ transport'[handle[c]] = transport[handle[c]]]_vars

\* C11 witness: a call with a callback opened a stream that failed after a
\* chunk, a call without one issued create() which was rejected, and each
\* holds its single request
C11_Witness ==
    \E c, d \in Calls :
        /\ Validated(c) /\ args[c].callback /\ TransportFailed(c)
        /\ transport[handle[c]].op = "stream" /\ transport[handle[c]].chunks # <<>>
        /\ Get(transport[handle[c]].body, "stream") = Bool(TRUE)
        /\ Validated(d) /\ ~args[d].callback /\ TransportFailed(d)
        /\ transport[handle[d]].op = "create"
        /\ Get(transport[handle[d]].body, "stream") = Bool(FALSE)
        /\ Len(transport) = 2

=============================================================================
